---- MODULE Spec2Model ----
(***************************************************************************)
(* array-util (src/lib.rs): transformations on fixed-length arrays, each   *)
(* built by filling a MaybeUninit buffer slot by slot and reinterpreting   *)
(* it as an initialized array.  Arrays are functions over 0..N-1, as in    *)
(* the source.  One action per call, per loop iteration and per return.    *)
(***************************************************************************)
EXTENDS Integers, FiniteSets, Sequences, TLC

\* Bounds of the exploration.
MaxLen == 3
MaxRows == 2
MaxCols == 2
MaxElem == 2

\* The element type T: Copy.
T == 1..MaxElem

\* The content of a slot of a MaybeUninit buffer that was never written.
Uninit == 0

VARIABLES
    op,         \* the public function the caller invoked
    pc,         \* position in the running function
    caller,     \* the caller's own copy of the argument (arrays are Copy)
    self,       \* the receiver of pop/push/remove/reverse/split
    array,      \* flatten's argument
    A, B,       \* flatten's const generics
    value,      \* push's argument
    index,      \* remove's argument
    POS,        \* split's const generic
    orig,       \* <<x>> while reverse runs on the result of reverse(x)
    data,       \* the MaybeUninit buffer of flatten/push/remove/reverse
    a, b,       \* the two MaybeUninit buffers of split
    pos, i,     \* loop counters
    inner,      \* flatten's current row
    wr, wra, wrb,   \* number of writes made to each slot of data, a, b
    result,     \* <<>> while running, <<r>> or <<x, y>> once returned
    fault,      \* which panic ended the call
    readUninit  \* an unwritten slot was read by assume_init

args == <<op, caller, self, array, A, B, value, index, POS, orig>>
locals == <<data, a, b, pos, i, inner, wr, wra, wrb>>
outcome == <<result, fault, readUninit>>
vars == <<pc, args, locals, outcome>>

\* The arrays [T; n] and the matrices [[T; cols]; rows].
ArrayOf(n) == [0..(n - 1) -> T]
MatrixOf(rows, cols) == [0..(rows - 1) -> ArrayOf(cols)]

\* const LEN: usize = N
LEN == Cardinality(DOMAIN self)

\* MaybeUninit::uninit_array() at length n, and its per-slot write counts.
uninit_array(n) == [j \in 0..(n - 1) |-> Uninit]
NoWrites(n) == [j \in 0..(n - 1) |-> 0]

\* assume_init: the buffer's memory read as [T; N].  A written slot reads as
\* the value written; an unwritten one reads as whatever the memory holds.
assume_init(buf) ==
    LET unwritten == {j \in DOMAIN buf : buf[j] = Uninit}
    IN  {[j \in DOMAIN buf |-> IF j \in unwritten THEN mem[j] ELSE buf[j]] :
            mem \in [unwritten -> T]}

HasUninit(buf) == \E j \in DOMAIN buf : buf[j] = Uninit

Init ==
    /\ op = "none" /\ pc = "idle"
    /\ caller = <<>> /\ self = <<>> /\ array = <<>>
    /\ A = 0 /\ B = 0 /\ value = 0 /\ index = 0 /\ POS = 0
    /\ orig = <<>>
    /\ data = <<>> /\ a = <<>> /\ b = <<>>
    /\ pos = 0 /\ i = 0 /\ inner = <<>>
    /\ wr = <<>> /\ wra = <<>> /\ wrb = <<>>
    /\ result = <<>> /\ fault = "none" /\ readUninit = FALSE

\* A panic unwinds the call: nothing is returned.
Panic(kind) == pc' = "fault" /\ fault' = kind

-----------------------------------------------------------------------------
\* flatten

\* Variant: the row stride taken from the wrong dimension.
FlattenSlot_StrideA == pos * A + i

\* data[pos * B + i]
FlattenSlot == pos * B + i

flatten_call(rows, cols, m) ==
    /\ op' = "flatten" /\ A' = rows /\ B' = cols
    /\ array' = m /\ caller' = m
    /\ data' = uninit_array(rows * cols) /\ wr' = NoWrites(rows * cols)
    /\ pos' = 0
    /\ pc' = "flatten_outer"
    /\ UNCHANGED <<self, value, index, POS, orig, a, b, i, inner, wra, wrb, outcome>>

flatten ==
    /\ pc = "idle"
    /\ \E rows \in 0..MaxRows, cols \in 0..MaxCols :
          \E m \in MatrixOf(rows, cols) : flatten_call(rows, cols, m)

flatten_outer ==
    /\ pc = "flatten_outer" /\ pos < A
    /\ IF pos \in DOMAIN array
       THEN inner' = array[pos] /\ i' = 0 /\ pc' = "flatten_inner" /\ UNCHANGED fault
       ELSE Panic("index") /\ UNCHANGED <<inner, i>>
    /\ UNCHANGED <<args, data, a, b, pos, wr, wra, wrb, result, readUninit>>

flatten_inner ==
    /\ pc = "flatten_inner" /\ i < B
    /\ IF i \in DOMAIN inner /\ FlattenSlot \in DOMAIN data
       THEN /\ data' = [data EXCEPT ![FlattenSlot] = inner[i]]
            /\ wr' = [wr EXCEPT ![FlattenSlot] = @ + 1]
            /\ i' = i + 1
            /\ UNCHANGED <<pc, fault>>
       ELSE Panic("index") /\ UNCHANGED <<data, wr, i>>
    /\ UNCHANGED <<args, a, b, pos, inner, wra, wrb, result, readUninit>>

flatten_next ==
    /\ pc = "flatten_inner" /\ ~(i < B)
    /\ pos' = pos + 1
    /\ pc' = "flatten_outer"
    /\ UNCHANGED <<args, data, a, b, i, inner, wr, wra, wrb, outcome>>

flatten_return ==
    /\ pc = "flatten_outer" /\ ~(pos < A)
    /\ result' \in {<<r>> : r \in assume_init(data)}
    /\ readUninit' = HasUninit(data)
    /\ pc' = "done"
    /\ UNCHANGED <<args, locals, fault>>

-----------------------------------------------------------------------------
\* push

\* Variant: the value stored one slot early.
PushSlot_Last == LEN - 1

\* data[N] = MaybeUninit::new(value)
PushSlot == LEN

push_call(arr, v) ==
    /\ op' = "push" /\ self' = arr /\ caller' = arr /\ value' = v
    /\ data' = uninit_array(Cardinality(DOMAIN arr) + 1)
    /\ wr' = NoWrites(Cardinality(DOMAIN arr) + 1)
    /\ pos' = 0
    /\ pc' = "push_loop"
    /\ UNCHANGED <<array, A, B, index, POS, orig, a, b, i, inner, wra, wrb, outcome>>

push ==
    /\ pc = "idle"
    /\ \E n \in 0..MaxLen : \E arr \in ArrayOf(n), v \in T : push_call(arr, v)

push_loop ==
    /\ pc = "push_loop" /\ pos < LEN
    /\ IF pos \in DOMAIN self /\ pos \in DOMAIN data
       THEN /\ data' = [data EXCEPT ![pos] = self[pos]]
            /\ wr' = [wr EXCEPT ![pos] = @ + 1]
            /\ pos' = pos + 1
            /\ UNCHANGED <<pc, fault>>
       ELSE Panic("index") /\ UNCHANGED <<data, wr, pos>>
    /\ UNCHANGED <<args, a, b, i, inner, wra, wrb, result, readUninit>>

push_return ==
    /\ pc = "push_loop" /\ ~(pos < LEN)
    /\ IF PushSlot \in DOMAIN data
       THEN /\ data' = [data EXCEPT ![PushSlot] = value]
            /\ wr' = [wr EXCEPT ![PushSlot] = @ + 1]
            /\ result' \in {<<r>> : r \in assume_init(data')}
            /\ readUninit' = HasUninit(data')
            /\ pc' = "done"
            /\ UNCHANGED fault
       ELSE Panic("index") /\ UNCHANGED <<data, wr, result, readUninit>>
    /\ UNCHANGED <<args, a, b, pos, i, inner, wra, wrb>>

-----------------------------------------------------------------------------
\* remove and pop

\* Variant: the bounds check off by one.
RemoveAssert_Inclusive == index <= LEN

\* assert!(index < Self::LEN)
RemoveAssert == index < LEN

\* Variants: the element after index skipped; copying stopped at index;
\* no element skipped.
RemoveCopies_SkipsNext == pos # index + 1
RemoveCopies_StopsAtIndex == pos < index
RemoveCopies_Always == TRUE

\* if pos != index
RemoveCopies == pos # index

\* Variant: the first element removed instead of the last.
PopIndex_First(n) == 0

\* self.remove(Self::LEN - 1)
PopIndex(n) == n - 1

remove_call(arr, idx) ==
    /\ op' = "remove" /\ self' = arr /\ caller' = arr /\ index' = idx
    /\ pc' = "remove_entry"
    /\ UNCHANGED <<array, A, B, value, POS, orig, locals, outcome>>

\* LEN - 1 in the return type rules out N = 0 at compile time.
remove ==
    /\ pc = "idle"
    /\ \E n \in 1..MaxLen : \E arr \in ArrayOf(n), idx \in 0..(MaxLen + 1) :
          remove_call(arr, idx)

pop_call(arr) ==
    /\ op' = "pop" /\ self' = arr /\ caller' = arr
    /\ index' = PopIndex(Cardinality(DOMAIN arr))
    /\ pc' = "remove_entry"
    /\ UNCHANGED <<array, A, B, value, POS, orig, locals, outcome>>

pop ==
    /\ pc = "idle"
    /\ \E n \in 1..MaxLen : \E arr \in ArrayOf(n) : pop_call(arr)

remove_entry ==
    /\ pc = "remove_entry"
    /\ IF RemoveAssert
       THEN /\ data' = uninit_array(LEN - 1) /\ wr' = NoWrites(LEN - 1)
            /\ pos' = 0 /\ i' = 0
            /\ pc' = "remove_loop"
            /\ UNCHANGED fault
       ELSE Panic("assert") /\ UNCHANGED <<data, wr, pos, i>>
    /\ UNCHANGED <<args, a, b, inner, wra, wrb, result, readUninit>>

\* Variant: pos advanced only inside the if.
remove_loop_IncInsideIf ==
    /\ pc = "remove_loop" /\ pos < LEN
    /\ IF RemoveCopies
       THEN IF pos \in DOMAIN self /\ i \in DOMAIN data
            THEN /\ data' = [data EXCEPT ![i] = self[pos]]
                 /\ wr' = [wr EXCEPT ![i] = @ + 1]
                 /\ i' = i + 1
                 /\ pos' = pos + 1
                 /\ UNCHANGED <<pc, fault>>
            ELSE Panic("index") /\ UNCHANGED <<data, wr, i, pos>>
       ELSE UNCHANGED <<data, wr, i, pos, pc, fault>>
    /\ UNCHANGED <<args, a, b, inner, wra, wrb, result, readUninit>>

remove_loop ==
    /\ pc = "remove_loop" /\ pos < LEN
    /\ IF RemoveCopies
       THEN IF pos \in DOMAIN self /\ i \in DOMAIN data
            THEN /\ data' = [data EXCEPT ![i] = self[pos]]
                 /\ wr' = [wr EXCEPT ![i] = @ + 1]
                 /\ i' = i + 1
                 /\ pos' = pos + 1
                 /\ UNCHANGED <<pc, fault>>
            ELSE Panic("index") /\ UNCHANGED <<data, wr, i, pos>>
       ELSE pos' = pos + 1 /\ UNCHANGED <<data, wr, i, pc, fault>>
    /\ UNCHANGED <<args, a, b, inner, wra, wrb, result, readUninit>>

remove_return ==
    /\ pc = "remove_loop" /\ ~(pos < LEN)
    /\ result' \in {<<r>> : r \in assume_init(data)}
    /\ readUninit' = HasUninit(data)
    /\ pc' = "done"
    /\ UNCHANGED <<args, locals, fault>>

-----------------------------------------------------------------------------
\* reverse

\* Variant: the element copied to its own position.
ReverseSlot_Same == pos

\* data[Self::LEN - pos - 1]
ReverseSlot == LEN - pos - 1

reverse_entry(arr, from) ==
    /\ op' = "reverse" /\ self' = arr /\ caller' = arr /\ orig' = from
    /\ data' = uninit_array(Cardinality(DOMAIN arr))
    /\ wr' = NoWrites(Cardinality(DOMAIN arr))
    /\ pos' = 0
    /\ result' = <<>>
    /\ pc' = "reverse_loop"
    /\ UNCHANGED <<array, A, B, value, index, POS, a, b, i, inner, wra, wrb,
                   fault, readUninit>>

reverse ==
    /\ pc = "idle"
    /\ \E n \in 0..MaxLen : \E arr \in ArrayOf(n) : reverse_entry(arr, <<>>)

\* The caller reverses the array it just got back: reverse(reverse(x)).
reverse_again ==
    /\ pc = "done" /\ op = "reverse" /\ orig = <<>>
    /\ reverse_entry(result[1], <<caller>>)

reverse_loop ==
    /\ pc = "reverse_loop" /\ pos < LEN
    /\ IF pos \in DOMAIN self /\ ReverseSlot \in DOMAIN data
       THEN /\ data' = [data EXCEPT ![ReverseSlot] = self[pos]]
            /\ wr' = [wr EXCEPT ![ReverseSlot] = @ + 1]
            /\ pos' = pos + 1
            /\ UNCHANGED <<pc, fault>>
       ELSE Panic("index") /\ UNCHANGED <<data, wr, pos>>
    /\ UNCHANGED <<args, a, b, i, inner, wra, wrb, result, readUninit>>

reverse_return ==
    /\ pc = "reverse_loop" /\ ~(pos < LEN)
    /\ result' \in {<<r>> : r \in assume_init(data)}
    /\ readUninit' = HasUninit(data)
    /\ pc' = "done"
    /\ UNCHANGED <<args, locals, fault>>

-----------------------------------------------------------------------------
\* split

\* Variant: the offset of the second buffer forgotten.
SplitSlot_NoOffset == pos

\* b[pos - POS]
SplitSlot == pos - POS

split_call(arr, p) ==
    /\ op' = "split" /\ self' = arr /\ caller' = arr /\ POS' = p
    /\ a' = uninit_array(p) /\ wra' = NoWrites(p)
    /\ b' = uninit_array(Cardinality(DOMAIN arr) - p)
    /\ wrb' = NoWrites(Cardinality(DOMAIN arr) - p)
    /\ pos' = 0
    /\ pc' = "split_a"
    /\ UNCHANGED <<array, A, B, value, index, orig, data, i, inner, wr, outcome>>

\* LEN - POS in the return type rules out POS > N at compile time.
split ==
    /\ pc = "idle"
    /\ \E n \in 0..MaxLen : \E arr \in ArrayOf(n), p \in 0..n : split_call(arr, p)

split_a ==
    /\ pc = "split_a" /\ pos < Cardinality(DOMAIN a)
    /\ IF pos \in DOMAIN self /\ pos \in DOMAIN a
       THEN /\ a' = [a EXCEPT ![pos] = self[pos]]
            /\ wra' = [wra EXCEPT ![pos] = @ + 1]
            /\ pos' = pos + 1
            /\ UNCHANGED <<pc, fault>>
       ELSE Panic("index") /\ UNCHANGED <<a, wra, pos>>
    /\ UNCHANGED <<args, data, b, i, inner, wr, wrb, result, readUninit>>

split_next ==
    /\ pc = "split_a" /\ ~(pos < Cardinality(DOMAIN a))
    /\ pc' = "split_b"
    /\ UNCHANGED <<args, locals, outcome>>

split_b ==
    /\ pc = "split_b" /\ pos < LEN
    /\ IF pos \in DOMAIN self /\ SplitSlot \in DOMAIN b
       THEN /\ b' = [b EXCEPT ![SplitSlot] = self[pos]]
            /\ wrb' = [wrb EXCEPT ![SplitSlot] = @ + 1]
            /\ pos' = pos + 1
            /\ UNCHANGED <<pc, fault>>
       ELSE Panic("index") /\ UNCHANGED <<b, wrb, pos>>
    /\ UNCHANGED <<args, data, a, i, inner, wr, wra, result, readUninit>>

split_return ==
    /\ pc = "split_b" /\ ~(pos < LEN)
    /\ result' \in {<<x, y>> : x \in assume_init(a), y \in assume_init(b)}
    /\ readUninit' = (HasUninit(a) \/ HasUninit(b))
    /\ pc' = "done"
    /\ UNCHANGED <<args, locals, fault>>

-----------------------------------------------------------------------------
\* The caller takes the outcome and is free to call again.
Return ==
    /\ pc \in {"done", "fault"}
    /\ op' = "none" /\ pc' = "idle"
    /\ caller' = <<>> /\ self' = <<>> /\ array' = <<>>
    /\ A' = 0 /\ B' = 0 /\ value' = 0 /\ index' = 0 /\ POS' = 0
    /\ orig' = <<>>
    /\ data' = <<>> /\ a' = <<>> /\ b' = <<>>
    /\ pos' = 0 /\ i' = 0 /\ inner' = <<>>
    /\ wr' = <<>> /\ wra' = <<>> /\ wrb' = <<>>
    /\ result' = <<>> /\ fault' = "none" /\ readUninit' = FALSE

\* The steps of the running function, as opposed to the caller's calls.
Run ==
    \/ flatten_outer \/ flatten_inner \/ flatten_next \/ flatten_return
    \/ push_loop \/ push_return
    \/ remove_entry \/ remove_loop \/ remove_return
    \/ reverse_loop \/ reverse_return
    \/ split_a \/ split_next \/ split_b \/ split_return

\* The calls a caller can make while no call is running.
Call == flatten \/ push \/ remove \/ pop \/ reverse \/ split

Next ==
    \/ Call
    \/ reverse_again
    \/ Run
    \/ Return

Spec == Init /\ [][Next]_vars

\* The call runs to its end: the code is synchronous, with no suspension point.
FairSpec == Spec /\ WF_vars(Run)

-----------------------------------------------------------------------------
\* Properties

\* The length N of the array the caller passed.
CallerLen == Cardinality(DOMAIN caller)

Returned == pc = "done" /\ Len(result) = 1

\* C1: remove(a, index) with index < N returns the array of length N-1 that
\* holds a[j] for j < index and a[j+1] for index <= j < N-1.
RemoveDeletesIndex ==
    (op = "remove" /\ index < CallerLen) =>
        /\ pc # "fault"
        /\ pc = "done" =>
              /\ Len(result) = 1
              /\ DOMAIN result[1] = 0..(CallerLen - 2)
              /\ \A j \in 0..(CallerLen - 2) :
                    result[1][j] = IF j < index THEN caller[j] ELSE caller[j + 1]

RemoveDeletesIndexWitness ==
    /\ op = "remove" /\ Returned
    /\ 0 < index /\ index < CallerLen - 1
    /\ caller[index - 1] # caller[index] /\ caller[index] # caller[index + 1]

\* C2: remove(a, index) with index >= N faults on its bounds check: no buffer
\* was allocated, no slot written, nothing is returned, the input is intact.
RemoveOutOfBoundsFaults ==
    (op = "remove" /\ index >= CallerLen /\ pc # "remove_entry") =>
        /\ pc = "fault" /\ fault = "assert"
        /\ DOMAIN data = {} /\ DOMAIN wr = {}
        /\ result = <<>>
        /\ self = caller

RemoveOutOfBoundsFaultsWitness ==
    /\ op = "remove" /\ pc = "fault" /\ fault = "assert"
    /\ CallerLen >= 2 /\ index = CallerLen

\* C3: flatten(m) of an A-by-B matrix never faults and returns the array of
\* length A*B with flatten(m)[x*B + y] = m[x][y].
FlattenRowMajor ==
    op = "flatten" =>
        /\ pc # "fault"
        /\ pc = "done" =>
              /\ Len(result) = 1
              /\ DOMAIN result[1] = 0..(A * B - 1)
              /\ \A x \in 0..(A - 1), y \in 0..(B - 1) :
                    result[1][x * B + y] = caller[x][y]

FlattenRowMajorWitness ==
    /\ op = "flatten" /\ Returned
    /\ A >= 2 /\ B >= 2
    /\ caller[0][1] # caller[1][0]

\* C4: split(a, POS) with POS <= N returns (x, y): x is a[0..POS), y is
\* a[POS..N), and x followed by y is a.
Concat(x, y) ==
    [j \in 0..(Cardinality(DOMAIN x) + Cardinality(DOMAIN y) - 1) |->
        IF j < Cardinality(DOMAIN x) THEN x[j] ELSE y[j - Cardinality(DOMAIN x)]]

SplitRoundTrip ==
    op = "split" =>
        /\ pc # "fault"
        /\ pc = "done" =>
              /\ Len(result) = 2
              /\ DOMAIN result[1] = 0..(POS - 1)
              /\ \A j \in 0..(POS - 1) : result[1][j] = caller[j]
              /\ DOMAIN result[2] = 0..(CallerLen - POS - 1)
              /\ \A j \in 0..(CallerLen - POS - 1) : result[2][j] = caller[POS + j]
              /\ Concat(result[1], result[2]) = caller

SplitRoundTripWitness ==
    /\ op = "split" /\ pc = "done" /\ Len(result) = 2
    /\ POS >= 1 /\ CallerLen - POS >= 2
    /\ caller[POS] # caller[POS + 1]

\* C5: reverse(a) never faults, has reverse(a)[j] = a[N-1-j], and
\* reverse(reverse(a)) = a.
ReverseInvolution ==
    op = "reverse" =>
        /\ pc # "fault"
        /\ pc = "done" =>
              /\ Len(result) = 1
              /\ DOMAIN result[1] = 0..(CallerLen - 1)
              /\ \A j \in 0..(CallerLen - 1) : result[1][j] = caller[CallerLen - 1 - j]
              /\ Len(orig) = 1 => result[1] = orig[1]

ReverseInvolutionWitness ==
    /\ op = "reverse" /\ Returned /\ Len(orig) = 1
    /\ CallerLen >= 2
    /\ orig[1][0] # orig[1][CallerLen - 1]
    /\ caller # orig[1]

\* C6: push(a, v) never faults and returns a with v appended.
PushAppends ==
    op = "push" =>
        /\ pc # "fault"
        /\ pc = "done" =>
              /\ Len(result) = 1
              /\ DOMAIN result[1] = 0..CallerLen
              /\ \A j \in 0..(CallerLen - 1) : result[1][j] = caller[j]
              /\ result[1][CallerLen] = value

PushAppendsWitness ==
    /\ op = "push" /\ Returned
    /\ CallerLen >= 2
    /\ caller[0] # value /\ caller[CallerLen - 1] # value

\* C7: pop(a) with N >= 1 is remove(a, N-1): it never trips the bounds check
\* and returns a[0..N-1).
PopIsRemoveLast ==
    op = "pop" =>
        /\ index = CallerLen - 1
        /\ pc # "fault"
        /\ pc = "done" =>
              /\ Len(result) = 1
              /\ DOMAIN result[1] = 0..(CallerLen - 2)
              /\ \A j \in 0..(CallerLen - 2) : result[1][j] = caller[j]

PopIsRemoveLastWitness ==
    /\ op = "pop" /\ Returned
    /\ CallerLen >= 2
    /\ caller[0] # caller[CallerLen - 1]

\* C8: when a buffer is finalized every slot of it has been written exactly
\* once; no unwritten slot is ever read, and no slot is written twice.
WrittenOnce(buf, count) ==
    /\ DOMAIN count = DOMAIN buf
    /\ \A j \in DOMAIN buf : count[j] = 1 /\ buf[j] # Uninit

BuffersFullyWritten ==
    /\ ~readUninit
    /\ \A j \in DOMAIN wr : wr[j] <= 1
    /\ \A j \in DOMAIN wra : wra[j] <= 1
    /\ \A j \in DOMAIN wrb : wrb[j] <= 1
    /\ pc = "done" =>
          /\ WrittenOnce(data, wr)
          /\ WrittenOnce(a, wra)
          /\ WrittenOnce(b, wrb)

BuffersFullyWrittenWitness ==
    /\ op = "remove" /\ Returned
    /\ index < CallerLen - 1
    /\ CallerLen >= 3

\* C9: every call terminates, in its return or (remove) its fault, and each
\* loop counter goes up by one per iteration, never past its bound.
LoopCounters ==
    /\ (pc = "flatten_inner" /\ pc' = "flatten_inner") => (i' = i + 1 /\ i' <= B)
    /\ (pc = "flatten_inner" /\ pc' = "flatten_outer") => (pos' = pos + 1 /\ pos' <= A)
    /\ (pc = "push_loop" /\ pc' = "push_loop") => (pos' = pos + 1 /\ pos' <= LEN)
    /\ (pc = "remove_loop" /\ pc' = "remove_loop") => (pos' = pos + 1 /\ pos' <= LEN)
    /\ (pc = "reverse_loop" /\ pc' = "reverse_loop") => (pos' = pos + 1 /\ pos' <= LEN)
    /\ (pc = "split_a" /\ pc' = "split_a") => (pos' = pos + 1 /\ pos' <= POS)
    /\ (pc = "split_b" /\ pc' = "split_b") => (pos' = pos + 1 /\ pos' <= LEN)

Terminates ==
    /\ (pc # "idle") ~> (pc \in {"done", "fault"})
    /\ [][LoopCounters]_vars

TerminatesWitness ==
    /\ op = "flatten" /\ Returned
    /\ A >= 2 /\ B >= 2 /\ pos = A

\* C10: every index is in bounds, so the only fault is remove's bounds check;
\* remove's cursor i is pos up to index and pos-1 after it, at most N-2 at a
\* write and N-1 at the end; flatten and split write inside their buffers.
OnlyRemoveAssertFaults ==
    /\ fault \in {"none", "assert"}
    /\ fault = "assert" => (op = "remove" /\ index >= CallerLen)
    /\ pc = "remove_loop" =>
          /\ i = IF pos <= index THEN pos ELSE pos - 1
          /\ (pos < LEN /\ pos # index) => i <= LEN - 2
          /\ ~(pos < LEN) => i = LEN - 1
    /\ (op \in {"remove", "pop"} /\ pc = "done") => i = LEN - 1
    /\ (pc = "flatten_inner" /\ i < B) => (0 <= pos * B + i /\ pos * B + i < A * B)
    /\ (pc = "split_b" /\ pos < LEN) => (0 <= pos - POS /\ pos - POS < LEN - POS)

OnlyRemoveAssertFaultsWitness ==
    /\ pc = "remove_loop" /\ fault = "none"
    /\ index < pos /\ pos < LEN
    /\ i = LEN - 2
====
